---- MODULE Spec2Model ----
(***************************************************************************)
(* Shop backend: the product catalog (products and stock tables), the      *)
(* direct create handler (POST /products), the queue consumer              *)
(* (catalog-batch-process), its notifier, and get-products-by-id.          *)
(*                                                                         *)
(* JSON values are records [t, s, n]: t is the JavaScript typeof class,    *)
(* s the characters of a string, n a number in tenths (fixed point with    *)
(* one decimal digit, so 29.9 is 299 and the integer 3 is 30).             *)
(***************************************************************************)
EXTENDS Integers, Sequences, FiniteSets, Bags, TLC

\* ------------------------------------------------------------------ bounds

\* Identifiers randomUUID can hand out in one behaviour.
MaxIds == 2
\* Messages in one delivery batch (the stack configures batchSize 5).
MaxBatch == 2
\* Rows in one uploaded file.
MaxRows == 2
\* Messages the queue holds at a time.
MaxQueue == 3
\* Deliveries of one batch that keeps failing.
MaxReceives == 2
\* The records of one object-created event.
MaxRecords == 2
\* Requests to GET /import in one behaviour.
MaxRequests == 2

\* The radix of parseInt(data.count, 10); numbers carry one digit of that
\* radix after the point.
Radix == 10

Unit == Radix

\* ------------------------------------------------------------------ values

Undefined == [t |-> "undefined", s |-> <<>>, n |-> 0]
Null == [t |-> "null", s |-> <<>>, n |-> 0]
True == [t |-> "boolean", s |-> <<>>, n |-> 1]
NaN == [t |-> "number", s |-> <<"N", "a", "N">>, n |-> 0]
Num(n) == [t |-> "number", s |-> <<>>, n |-> n]
Str(s) == [t |-> "string", s |-> s, n |-> 0]

typeof(v) == IF v.t = "null" THEN "object" ELSE v.t
isNaN(v) == v = NaN
IsInteger(v) == v.t = "number" /\ ~isNaN(v) /\ v.n % Unit = 0

Digits == <<"0", "1", "2", "3", "4", "5", "6", "7", "8", "9">>
IsDigit(c) == \E i \in 1..Len(Digits) : Digits[i] = c
DigitVal(c) == (CHOOSE i \in 1..Len(Digits) : Digits[i] = c) - 1

RECURSIVE SkipWs(_)
SkipWs(s) == IF s # <<>> /\ Head(s) = " " THEN SkipWs(Tail(s)) ELSE s

RECURSIVE Reverse(_)
Reverse(s) == IF s = <<>> THEN <<>> ELSE Append(Reverse(Tail(s)), Head(s))

\* String.prototype.trim
trim(s) == Reverse(SkipWs(Reverse(SkipWs(s))))

RECURSIVE DigitPrefix(_)
DigitPrefix(s) ==
  IF s # <<>> /\ IsDigit(Head(s))
    THEN <<Head(s)>> \o DigitPrefix(Tail(s))
    ELSE <<>>

RECURSIVE DigitsValue(_, _)
DigitsValue(ds, acc) ==
  IF ds = <<>> THEN acc
  ELSE DigitsValue(Tail(ds), acc * Radix + DigitVal(Head(ds)))

Signed(s) == s # <<>> /\ Head(s) \in {"-", "+"}
SignOf(s) == IF s # <<>> /\ Head(s) = "-" THEN -1 ELSE 1
Unsigned(s) == IF Signed(s) THEN Tail(s) ELSE s

\* parseInt(s, 10): leading blanks, a sign, the longest run of digits.
parseInt(s) ==
  LET t == SkipWs(s)
      ds == DigitPrefix(Unsigned(t))
  IN IF ds = <<>> THEN NaN ELSE Num(SignOf(t) * DigitsValue(ds, 0) * Unit)

\* parseFloat(s): leading blanks, a sign, digits, a point and digits.  The
\* strings of this model carry at most one digit after the point.
parseFloat(s) ==
  LET t == SkipWs(s)
      u == Unsigned(t)
      ip == DigitPrefix(u)
      rest == SubSeq(u, Len(ip) + 1, Len(u))
      fp == IF rest # <<>> /\ Head(rest) = "." THEN DigitPrefix(Tail(rest)) ELSE <<>>
  IN IF ip = <<>> /\ fp = <<>> THEN NaN
     ELSE Num(SignOf(t) * (DigitsValue(ip, 0) * Unit
                           + (IF fp = <<>> THEN 0 ELSE DigitVal(fp[1]))))

\* ------------------------------------------------------------------ payloads

\* A message or request body: text that is not JSON ("invalid"), no body at
\* all ("absent"), the JSON null, or a JSON object with these four members
\* (Undefined: the member is missing).
Body(kind, title, description, price, count) ==
  [kind |-> kind, title |-> title, description |-> description,
   price |-> price, count |-> count]

EmptyObject == Body("object", Undefined, Undefined, Undefined, Undefined)
InvalidJson == Body("invalid", Undefined, Undefined, Undefined, Undefined)
AbsentBody == Body("absent", Undefined, Undefined, Undefined, Undefined)
NullBody == Body("null", Undefined, Undefined, Undefined, Undefined)

Titles ==
  {Undefined, Num(10), Str(<<>>), Str(<<" ">>), Str(<<"a">>), Str(<<" ", "a">>)}
Descriptions ==
  {Undefined, Num(10), Str(<<>>), Str(<<"d", " ">>)}
Prices ==
  {Undefined, Null, Num(0), Num(-10), Num(20),
   Str(<<>>), Str(<<"1", ".", "5">>), Str(<<"x">>),
   Str(<<"-", "1">>), Str(<<"0">>)}
Counts ==
  {Undefined, Null, True, Str(<<>>), Num(0), Num(30), Num(-10), Num(25),
   Str(<<"3">>), Str(<<"-", "1">>), Str(<<"x">>), Str(<<"2", ".", "5">>),
   Str(<<"3", "x">>)}

AllBodies ==
  {InvalidJson, AbsentBody, NullBody}
  \cup {Body("object", t, d, p, c) :
          t \in Titles, d \in Descriptions, p \in Prices, c \in Counts}

\* The bodies the whole-system specification draws from: a plain product, a
\* row as the CSV parser delivers it (every member a string), a product whose
\* price is zero, and text that is not JSON.
PlainProduct == Body("object", Str(<<"a">>), Str(<<"d">>), Num(20), Num(30))
CsvRow ==
  Body("object", Str(<<" ", "a">>), Str(<<"d", " ">>),
       Str(<<"1", ".", "5">>), Str(<<"3">>))
ZeroPrice == Body("object", Str(<<"a">>), Str(<<"d">>), Num(0), Num(30))

SystemBodies == {PlainProduct, CsvRow, ZeroPrice, InvalidJson}

\* ------------------------------------------------------------------ validation

\* Mutant: JSON.parse(event.body), which throws when there is no body.
ParseRequestBodyAsGiven(b) == IF b.kind = "absent" THEN InvalidJson ELSE b

\* JSON.parse(event.body || "{}") of the direct create handler.
ParseRequestBody(b) == IF b.kind = "absent" THEN EmptyObject ELSE b

\* Mutant: the price check is missing.
isValidProductDataAnyPrice(data) ==
  /\ data.kind = "object"
  /\ typeof(data.title) = "string"
  /\ Len(trim(data.title.s)) > 0
  /\ typeof(data.description) = "string"
  /\ typeof(data.price) = "number"

\* create-product: isValidProductData
isValidProductData(data) ==
  /\ data.kind = "object"
  /\ typeof(data.title) = "string"
  /\ Len(trim(data.title.s)) > 0
  /\ typeof(data.description) = "string"
  /\ typeof(data.price) = "number"
  /\ data.price.n > 0

\* catalog-batch-process, first version: isValidProduct
isValidProduct(data) ==
  /\ data.kind = "object"
  /\ typeof(data.title) = "string"
  /\ Len(trim(data.title.s)) > 0
  /\ typeof(data.description) = "string"
  /\ typeof(data.price) = "number"
  /\ data.price.n > 0

\* const count = typeof data.count === "number" ? data.count : 0
CountOrZero(count) == IF typeof(count) = "number" THEN count ELSE Num(0)

Thrown(message) ==
  [ok |-> FALSE, error |-> message, title |-> <<>>, description |-> <<>>,
   price |-> Undefined, count |-> Undefined]
ProductMessage(title, description, price, count) ==
  [ok |-> TRUE, error |-> "", title |-> title, description |-> description,
   price |-> price, count |-> count]

\* parseProductData: the price as parsed.
ParsedPrice(data) ==
  IF typeof(data.price) = "number" THEN data.price
  ELSE parseFloat(data.price.s)

CountGiven(data) ==
  data.count # Undefined /\ data.count # Null /\ data.count # Str(<<>>)

\* parseProductData: the error of the count member, "" when it has none.
CountError(data) ==
  IF ~CountGiven(data) THEN ""
  ELSE IF typeof(data.count) = "number" THEN ""
  ELSE IF typeof(data.count) = "string"
    THEN IF isNaN(parseInt(data.count.s)) \/ parseInt(data.count.s).n < 0
           THEN "Product count must be a non-negative number"
           ELSE ""
  ELSE "Product count must be a number or numeric string"

\* parseProductData: the count as parsed (undefined when none was given).
ParsedCount(data) ==
  IF ~CountGiven(data) THEN Undefined
  ELSE IF typeof(data.count) = "number" THEN data.count
  ELSE parseInt(data.count.s)

\* catalog-batch-process: parseProductData
parseProductData(data) ==
  IF data.kind # "object"
    THEN Thrown("Product data must be an object")
  ELSE IF typeof(data.title) # "string" \/ Len(trim(data.title.s)) = 0
    THEN Thrown("Product title must be a non-empty string")
  ELSE IF typeof(data.description) # "string"
    THEN Thrown("Product description must be a string")
  ELSE IF typeof(data.price) \notin {"number", "string"}
    THEN Thrown("Product price must be a number or numeric string")
  ELSE IF isNaN(ParsedPrice(data)) \/ ParsedPrice(data).n <= 0
    THEN Thrown("Product price must be a positive number")
  ELSE IF CountError(data) # ""
    THEN Thrown(CountError(data))
  ELSE ProductMessage(trim(data.title.s), trim(data.description.s),
                      ParsedPrice(data), ParsedCount(data))

\* processRecord up to its write: JSON.parse, then parseProductData.
ParseRecord(body) ==
  IF body.kind = "invalid" THEN Thrown("Invalid JSON format")
  ELSE parseProductData(body)

\* ------------------------------------------------------------------ state

VARIABLES
  products,   \* the products table: identifier -> Item
  stock,      \* the stock table: identifier -> [product_id, count]
  nextId,     \* the next identifier randomUUID hands out
  bodies,     \* the bodies clients and the queue deliver in this behaviour
  topicArn,   \* whether SNS_TOPIC_ARN is configured
  dc,         \* the direct create invocation (POST /products)
  cb,         \* the queue consumer invocation (catalog-batch-process)
  lastGet,    \* the last answer of get-products-by-id
  ls,         \* the get-products-list invocation
  gw,         \* the request to GET /import: authorizer, then import-products-file
  fp,         \* the import-file-parser invocation
  queue       \* the messages in catalogItemsQueue, in no order

\* The state of the import service.
importVars == <<gw, fp, queue>>

vars ==
  <<products, stock, nextId, bodies, topicArn, dc, cb, lastGet, ls, gw, fp, queue>>

Ids == 1..MaxIds

ProductItem(id, title, description, price) ==
  [id |-> id, title |-> title, description |-> description, price |-> price]
StockItem(id, count) == [product_id |-> id, count |-> count]

\* Mutant: the item replaces what the table held.
PutAlone(table, key, item) == [k \in {key} |-> item]

\* PutCommand / a Put of TransactWriteCommand: the table with the item stored
\* under its key.
Put(table, key, item) ==
  [k \in DOMAIN table \cup {key} |-> IF k = key THEN item ELSE table[k]]

NoTable == [k \in {} |-> 0]

\* A response: the status code and the members of the JSON body.
Response(status, body) == [statusCode |-> status, body |-> body]
MessageBody == [message |-> TRUE]

IdleCreate ==
  [pc |-> "idle", data |-> EmptyObject, productId |-> 0, count |-> Undefined,
   response |-> Response(0, MessageBody)]

IdleConsumer ==
  [pc |-> "idle", records |-> <<>>, i |-> 0, createdProducts |-> <<>>,
   productData |-> Thrown(""), productId |-> 0, started |-> 0, writes |-> 0,
   notifierArgs |-> <<>>, publishCalls |-> 0, published |-> <<>>, error |-> "",
   earlier |-> <<>>, writeFailed |-> FALSE]

InitCommon ==
  /\ products = NoTable
  /\ stock = NoTable
  /\ nextId = 1
  /\ topicArn \in BOOLEAN
  /\ dc = IdleCreate
  /\ cb = IdleConsumer
  /\ lastGet = [productId |-> 0, served |-> TRUE,
                response |-> Response(0, MessageBody)]
  /\ ls = [pc |-> "idle", catalog |-> {}, items |-> <<>>, counts |-> <<>>,
           lookups |-> 0, response |-> Response(0, MessageBody)]
  /\ gw = [pc |-> "idle", token |-> Undefined, name |-> Undefined,
           auth |-> [kind |-> "none", principalId |-> <<>>, effect |-> "",
                     resource |-> ""],
           key |-> <<>>, signCalls |-> 0, signed |-> <<>>,
           response |-> Response(0, [message |-> ""]),
           requests |-> 0, authCalls |-> 0,
           cache |-> [token |-> Null,
                      auth |-> [kind |-> "none", principalId |-> <<>>,
                                effect |-> "", resource |-> ""]],
           ran |-> FALSE,
           last |-> [token |-> Null,
                     auth |-> [kind |-> "none", principalId |-> <<>>,
                               effect |-> "", resource |-> ""]]]
  /\ fp = [pc |-> "idle", key |-> <<>>, rows |-> <<>>, read |-> 0,
           sends |-> <<>>, before |-> EmptyBag, error |-> "", created |-> <<>>,
           event |-> <<>>, r |-> 0, handled |-> <<>>, gets |-> <<>>,
           settled |-> <<>>]
  /\ queue = EmptyBag

\* The deployed system: the stack sets SNS_TOPIC_ARN for the consumer.
Init == InitCommon /\ bodies = SystemBodies /\ topicArn

\* One body under test, delivered any number of times on either path.
InitPayload == InitCommon /\ bodies \in {{b} : b \in AllBodies}

\* ------------------------------------------------------------------ direct create

\* The answer of the catch block and of the validation branch.
ErrorResponse(status) == Response(status, MessageBody)

\* body: JSON.stringify({...product, count})
\* const product: Product = { id, title, description, price }
NewProduct(d) ==
  ProductItem(d.productId, d.data.title.s, d.data.description.s, d.data.price)

CreatedBody(product, count) ==
  [id |-> product.id, title |-> product.title,
   description |-> product.description, price |-> product.price,
   count |-> count]

\* POST /products up to its first write: JSON.parse, isValidProductData,
\* randomUUID and the count default.
CreateProduct_Request(b) ==
  /\ dc.pc \in {"idle", "done"}
  /\ b \in bodies
  /\ IF ParseRequestBody(b).kind = "invalid"
       THEN /\ dc' = [IdleCreate EXCEPT !.pc = "done", !.data = b,
                                        !.response = ErrorResponse(500)]
            /\ UNCHANGED nextId
       ELSE IF ~isValidProductData(ParseRequestBody(b))
         THEN /\ dc' = [IdleCreate EXCEPT !.pc = "done", !.data = b,
                                          !.response = ErrorResponse(400)]
              /\ UNCHANGED nextId
         ELSE /\ nextId \in Ids
              /\ dc' = [IdleCreate EXCEPT
                          !.pc = "putProduct", !.data = ParseRequestBody(b),
                          !.productId = nextId,
                          !.count = CountOrZero(ParseRequestBody(b).count)]
              /\ nextId' = nextId + 1
  /\ UNCHANGED <<products, stock, bodies, topicArn, cb, lastGet, ls, importVars>>

\* The first PutCommand (products table); a rejected send lands in the catch.
CreateProduct_PutProduct(ok) ==
  /\ dc.pc = "putProduct"
  /\ IF ok
       THEN /\ products' = Put(products, dc.productId,
                               ProductItem(dc.productId, dc.data.title.s,
                                           dc.data.description.s, dc.data.price))
            /\ dc' = [dc EXCEPT !.pc = "putStock"]
       ELSE /\ dc' = [dc EXCEPT !.pc = "done", !.response = ErrorResponse(500)]
            /\ UNCHANGED products
  /\ UNCHANGED <<stock, nextId, bodies, topicArn, cb, lastGet, ls, importVars>>

\* The second PutCommand (stock table), then the 201 answer.
CreateProduct_PutStock(ok) ==
  /\ dc.pc = "putStock"
  /\ IF ok
       THEN /\ stock' = Put(stock, dc.productId, StockItem(dc.productId, dc.count))
            /\ dc' = [dc EXCEPT
                        !.pc = "done",
                        !.response =
                          Response(201, CreatedBody(NewProduct(dc), dc.count))]
       ELSE /\ dc' = [dc EXCEPT !.pc = "done", !.response = ErrorResponse(500)]
            /\ UNCHANGED stock
  /\ UNCHANGED <<products, nextId, bodies, topicArn, cb, lastGet, ls, importVars>>

\* ------------------------------------------------------------------ queue consumer

RECURSIVE SeqsUpTo(_, _)
SeqsUpTo(S, n) ==
  IF n = 0 THEN {<<>>}
  ELSE LET shorter == SeqsUpTo(S, n - 1)
       IN shorter \cup {Append(q, x) : q \in shorter, x \in S}

\* An SQS record always carries a body string.
QueueBodies == {b \in bodies : b.kind # "absent"}

\* Mutant: the count is returned as the message gave it, not as written.
CreatedGivenCount(id, productData) ==
  [id |-> id, title |-> productData.title, price |-> productData.price,
   count |-> productData.count]

\* What processRecord returns and the handler pushes to createdProducts.
Created(id, productData) ==
  [id |-> id, title |-> productData.title, price |-> productData.price,
   count |-> CountOrZero(productData.count)]

\* Mutant: the catch logs the error and goes on with the next record.
HandlerCatchAndContinue(c, message) ==
  [c EXCEPT !.pc = "loop", !.error = message, !.i = c.i + 1]

\* handler: catch (error) { console.error(...); throw error; }
HandlerCatch(c, message) == [c EXCEPT !.pc = "rejected", !.error = message]

\* Mutant: a single created product is not notified.
ShouldNotifyMany(createdProducts) == Len(createdProducts) > 1

\* handler: if (createdProducts.length > 0)
ShouldNotify(createdProducts) == Len(createdProducts) > 0

\* Mutant: the publish error is thrown on to the handler.
PublishCatchRethrow(c) == [c EXCEPT !.pc = "rejected", !.error = "publish failed"]

\* sendProductCreatedNotification: catch (error) { console.error(...) }
PublishCatch(c) == [c EXCEPT !.pc = "resolved"]

\* sendProductCreatedNotification: the subject and the products listed.
Notification(createdProducts) ==
  [count |-> Len(createdProducts), plural |-> Len(createdProducts) > 1,
   products |-> createdProducts]

\* The queue trigger invokes the handler with a batch of records.
Consumer_Invoke(batch) ==
  /\ cb.pc \in {"idle", "resolved", "rejected"}
  /\ Len(batch) <= MaxBatch
  /\ \A k \in 1..Len(batch) : batch[k] \in QueueBodies
  /\ cb' = [IdleConsumer EXCEPT !.pc = "loop", !.records = batch, !.i = 1]
  /\ UNCHANGED <<products, stock, nextId, bodies, topicArn, dc, lastGet, ls, importVars>>

\* Mutant: only the messages from the failed one on are delivered again.
RedeliveredFromFailure(c) == SubSeq(c.records, c.i, Len(c.records))

\* The event source deletes the messages of a batch only when the invocation
\* succeeds: after a failure the whole batch becomes visible again.
Redelivered(c) == c.records

\* The queue delivers the batch of the failed invocation again.
Consumer_Redeliver ==
  /\ cb.pc = "rejected"
  /\ Len(cb.earlier) + 1 < MaxReceives
  /\ cb' = [IdleConsumer EXCEPT
              !.pc = "loop", !.records = Redelivered(cb), !.i = 1,
              !.writeFailed = cb.writeFailed,
              !.earlier =
                Append(cb.earlier,
                       [records |-> cb.records, failedAt |-> cb.i,
                        createdProducts |-> cb.createdProducts])]
  /\ UNCHANGED <<products, stock, nextId, bodies, topicArn, dc, lastGet, ls,
                 importVars>>

\* Mutant: processRecord is called without await; the loop goes on while the
\* write is in flight.
StartWriteNoAwait(c, productData, productId) ==
  [c EXCEPT !.pc = "loop", !.i = c.i + 1, !.productData = productData,
            !.productId = productId, !.started = c.started + 1]

\* await processRecord(record) / await docClient.send(TransactWriteCommand):
\* the write is sent and the handler waits for it.
StartWrite(c, productData, productId) ==
  [c EXCEPT !.pc = "write", !.productData = productData,
            !.productId = productId, !.started = c.started + 1]

\* The messages of a batch, as a bag.
RECURSIVE BagOf(_)
BagOf(batch) ==
  IF batch = <<>> THEN EmptyBag
  ELSE SetToBag({Head(batch)}) (+) BagOf(Tail(batch))

\* The event source takes a batch of messages off the queue, in any order,
\* and invokes the handler with it; the messages are deleted when the
\* invocation succeeds.
Consumer_Receive ==
  /\ cb.pc \in {"idle", "resolved"}
  /\ queue # EmptyBag
  /\ \E batch \in SeqsUpTo(BagToSet(queue), MaxBatch) :
       /\ batch # <<>>
       /\ BagOf(batch) \sqsubseteq queue
       /\ queue' = queue (-) BagOf(batch)
       /\ cb' = [IdleConsumer EXCEPT !.pc = "loop", !.records = batch, !.i = 1,
                                     !.writeFailed = cb.writeFailed]
  /\ UNCHANGED <<products, stock, nextId, bodies, topicArn, dc, lastGet, ls, gw, fp>>

\* processRecord up to its write: JSON.parse, parseProductData, randomUUID.
Consumer_ProcessRecord ==
  /\ cb.pc = "loop"
  /\ cb.i <= Len(cb.records)
  /\ LET productData == ParseRecord(cb.records[cb.i])
     IN IF ~productData.ok
          THEN /\ cb' = HandlerCatch(cb, productData.error)
               /\ UNCHANGED nextId
          ELSE /\ nextId \in Ids
               /\ cb' = StartWrite(cb, productData, nextId)
               /\ nextId' = nextId + 1
  /\ UNCHANGED <<products, stock, bodies, topicArn, dc, lastGet, ls, importVars>>

\* The TransactWriteCommand of processRecord: both items or neither.
Consumer_TransactWrite(ok) ==
  /\ cb.pc = "write"
  /\ IF ok
       THEN /\ products' =
                 Put(products, cb.productId,
                     ProductItem(cb.productId, cb.productData.title,
                                 cb.productData.description, cb.productData.price))
            /\ stock' =
                 Put(stock, cb.productId,
                     StockItem(cb.productId, CountOrZero(cb.productData.count)))
            /\ cb' = [cb EXCEPT
                        !.pc = "loop", !.i = cb.i + 1, !.writes = cb.writes + 1,
                        !.createdProducts =
                          Append(cb.createdProducts,
                                 Created(cb.productId, cb.productData))]
       ELSE /\ cb' = [HandlerCatch(cb, "write failed") EXCEPT
                        !.writes = cb.writes + 1, !.writeFailed = TRUE]
            /\ UNCHANGED <<products, stock>>
  /\ UNCHANGED <<nextId, bodies, topicArn, dc, lastGet, ls, importVars>>

\* After the loop: the notifier is called when something was created, and
\* returns at once when no topic is configured.
Consumer_Notify ==
  /\ cb.pc = "loop"
  /\ cb.i > Len(cb.records)
  /\ cb' = IF ~ShouldNotify(cb.createdProducts)
             THEN [cb EXCEPT !.pc = "resolved"]
           ELSE IF ~topicArn
             THEN [cb EXCEPT !.pc = "resolved",
                             !.notifierArgs =
                               Append(cb.notifierArgs, cb.createdProducts)]
           ELSE [cb EXCEPT !.pc = "publish",
                           !.notifierArgs =
                             Append(cb.notifierArgs, cb.createdProducts)]
  /\ UNCHANGED <<products, stock, nextId, bodies, topicArn, dc, lastGet, ls, importVars>>

\* The PublishCommand of the notifier.
Consumer_Publish(ok) ==
  /\ cb.pc = "publish"
  /\ cb' = IF ok
             THEN [cb EXCEPT !.pc = "resolved",
                             !.publishCalls = cb.publishCalls + 1,
                             !.published =
                               Append(cb.published, Notification(cb.createdProducts))]
             ELSE [PublishCatch(cb) EXCEPT !.publishCalls = cb.publishCalls + 1]
  /\ UNCHANGED <<products, stock, nextId, bodies, topicArn, dc, lastGet, ls, importVars>>

\* ------------------------------------------------------------------ get-products-by-id

\* Mutant: the answer is built without the check for a missing Item.
getProductsByIdUnchecked(productId, ok) ==
  IF productId = 0 THEN Response(400, MessageBody)
  ELSE IF ~ok THEN Response(500, MessageBody)
  ELSE IF productId \notin DOMAIN products THEN Response(200, MessageBody)
  ELSE Response(200, products[productId])

\* GET /products/{productId}: one GetCommand on the products table; 0 stands
\* for a request without the path parameter, ok for the GetCommand having
\* been served (a rejected send lands in the catch).
getProductsById(productId, ok) ==
  IF productId = 0 THEN Response(400, MessageBody)
  ELSE IF ~ok THEN Response(500, MessageBody)
  ELSE IF productId \notin DOMAIN products THEN Response(404, MessageBody)
  ELSE Response(200, products[productId])

GetProductsById(productId, ok) ==
  /\ productId \in 0..MaxIds
  /\ lastGet' = [productId |-> productId, served |-> ok,
                 response |-> getProductsById(productId, ok)]
  /\ UNCHANGED <<products, stock, nextId, bodies, topicArn, dc, cb, ls, importVars>>

\* ------------------------------------------------------------------ get-products-list

\* The Items of a ScanCommand over a table, here in the order of the keys.
RECURSIVE ItemsFrom(_, _)
ItemsFrom(table, id) ==
  IF id > MaxIds THEN <<>>
  ELSE (IF id \in DOMAIN table THEN <<table[id]>> ELSE <<>>)
         \o ItemsFrom(table, id + 1)
Scan(table) == ItemsFrom(table, 1)

\* stockResult.Item?.count || 0
ItemCountOrZero(table, id) ==
  IF id \notin DOMAIN table THEN Num(0)
  ELSE IF table[id].count = Num(0) \/ isNaN(table[id].count) THEN Num(0)
  ELSE table[id].count

IdleList ==
  [pc |-> "idle", catalog |-> {}, items |-> <<>>, counts |-> <<>>,
   lookups |-> 0, response |-> Response(0, MessageBody)]

\* body: JSON.stringify(products), every product with the count assigned to it
ListBody(items, counts) ==
  [j \in 1..Len(items) |-> CreatedBody(items[j], counts[j])]

\* The handler returns once the loop has gone over every scanned product.
ListReturn(l) ==
  IF Len(l.counts) = Len(l.items)
    THEN [l EXCEPT !.pc = "done",
                   !.response = Response(200, ListBody(l.items, l.counts))]
    ELSE l

\* GET /products: the ScanCommand over the products table.
GetProductsList_Scan(ok) ==
  /\ ls.pc \in {"idle", "done"}
  /\ ls' = IF ok
             THEN ListReturn([IdleList EXCEPT !.pc = "lookup",
                                              !.catalog = DOMAIN products,
                                              !.items = Scan(products)])
             ELSE [IdleList EXCEPT !.pc = "done", !.catalog = DOMAIN products,
                                   !.response = ErrorResponse(500)]
  /\ UNCHANGED <<products, stock, nextId, bodies, topicArn, dc, cb, lastGet,
                 importVars>>

\* One turn of the loop: the GetCommand on the stock table for the next product.
GetProductsList_GetStock(ok) ==
  /\ ls.pc = "lookup"
  /\ ls' = IF ok
             THEN ListReturn(
                    [ls EXCEPT
                       !.lookups = ls.lookups + 1,
                       !.counts =
                         Append(ls.counts,
                                ItemCountOrZero(stock,
                                                ls.items[Len(ls.counts) + 1].id))])
             ELSE [ls EXCEPT !.pc = "done", !.lookups = ls.lookups + 1,
                             !.response = ErrorResponse(500)]
  /\ UNCHANGED <<products, stock, nextId, bodies, topicArn, dc, cb, lastGet,
                 importVars>>

\* ------------------------------------------------------------------ basic-authorizer

\* The characters with the byte values 32..126, in that order (the grave
\* accent, 96, written as U+0060).
Ascii ==
  <<" ", "!", "\"", "#", "$", "%", "&", "'", "(", ")", "*", "+", ",", "-",
   ".", "/", "0", "1", "2", "3", "4", "5", "6", "7", "8", "9", ":", ";", "<",
   "=", ">", "?", "@", "A", "B", "C", "D", "E", "F", "G", "H", "I", "J", "K",
   "L", "M", "N", "O", "P", "Q", "R", "S", "T", "U", "V", "W", "X", "Y", "Z",
   "[", "\\", "]", "^", "_", "U+0060", "a", "b", "c", "d", "e", "f", "g", "h",
   "i", "j", "k", "l", "m", "n", "o", "p", "q", "r", "s", "t", "u", "v", "w",
   "x", "y", "z", "{", "|", "}", "~">>

\* The base64 alphabet: the character of value v is Base64Alphabet[v + 1].
Base64Alphabet ==
  <<"A", "B", "C", "D", "E", "F", "G", "H", "I", "J", "K", "L", "M", "N",
   "O", "P", "Q", "R", "S", "T", "U", "V", "W", "X", "Y", "Z", "a", "b", "c",
   "d", "e", "f", "g", "h", "i", "j", "k", "l", "m", "n", "o", "p", "q", "r",
   "s", "t", "u", "v", "w", "x", "y", "z", "0", "1", "2", "3", "4", "5", "6",
   "7", "8", "9", "+", "/">>

\* Buffer.from(s, "base64") also reads the URL-safe characters.
Base64Value(c) ==
  IF c = "-" THEN Len(Base64Alphabet) - 2
  ELSE IF c = "_" THEN Len(Base64Alphabet) - 1
  ELSE (CHOOSE i \in 1..Len(Base64Alphabet) : Base64Alphabet[i] = c) - 1

IsBase64Char(c) ==
  c \in {"-", "_"} \/ \E i \in 1..Len(Base64Alphabet) : Base64Alphabet[i] = c

\* The values of the base64 characters of s up to the first "="; other
\* characters are passed over.
RECURSIVE Sextets(_)
Sextets(s) ==
  IF s = <<>> \/ Head(s) = "=" THEN <<>>
  ELSE IF IsBase64Char(Head(s)) THEN <<Base64Value(Head(s))>> \o Sextets(Tail(s))
  ELSE Sextets(Tail(s))

\* Four characters carry three bytes, three carry two, two carry one.
RECURSIVE SextetsToBytes(_)
SextetsToBytes(v) ==
  IF Len(v) < 2 THEN <<>>
  ELSE IF Len(v) = 2 THEN <<v[1] * 4 + v[2] \div 16>>
  ELSE IF Len(v) = 3
    THEN <<v[1] * 4 + v[2] \div 16, (v[2] % 16) * 16 + v[3] \div 4>>
  ELSE <<v[1] * 4 + v[2] \div 16, (v[2] % 16) * 16 + v[3] \div 4,
         (v[3] % 4) * 64 + v[4]>>
         \o SextetsToBytes(SubSeq(v, 5, Len(v)))

\* toString("utf-8") of one byte: its character, or the replacement character
\* for a byte outside 32..126.
ByteToChar(b) ==
  IF b \in 32..126 THEN Ascii[b - 31] ELSE "U+FFFD"

\* Buffer.from(encodedCredentials, "base64").toString("utf-8")
DecodeBase64(s) ==
  LET bytes == SextetsToBytes(Sextets(s))
  IN [i \in 1..Len(bytes) |-> ByteToChar(bytes[i])]

StartsWith(s, prefix) ==
  Len(s) >= Len(prefix) /\ SubSeq(s, 1, Len(prefix)) = prefix
endsWith(s, suffix) ==
  Len(s) >= Len(suffix) /\ SubSeq(s, Len(s) - Len(suffix) + 1, Len(s)) = suffix

\* decodedCredentials.split(":")
RECURSIVE UpToColon(_)
UpToColon(s) ==
  IF s = <<>> \/ Head(s) = ":" THEN <<>> ELSE <<Head(s)>> \o UpToColon(Tail(s))
\* Mutant: the credentials are split at their first colon only.
splitOnce(s) ==
  LET first == UpToColon(s)
  IN IF Len(first) = Len(s) THEN <<s>>
     ELSE <<first, SubSeq(s, Len(first) + 2, Len(s))>>

RECURSIVE split(_)
split(s) ==
  LET first == UpToColon(s)
  IN IF Len(first) = Len(s) THEN <<s>>
     ELSE <<first>> \o split(SubSeq(s, Len(first) + 2, Len(s)))

\* !x for a string or undefined
Falsy(v) == v = Undefined \/ v = Str(<<>>)

BasicPrefix == <<"B", "a", "s", "i", "c", " ">>

\* authorizationToken.match(/^Basic (.+)$/)
TokenMatch(token) == StartsWith(token, BasicPrefix) /\ Len(token) > Len(BasicPrefix)
EncodedCredentials(token) == SubSeq(token, Len(BasicPrefix) + 1, Len(token))

\* const [username, password] = decodedCredentials.split(":")
Username(decodedCredentials) == Str(split(decodedCredentials)[1])
Password(decodedCredentials) ==
  IF Len(split(decodedCredentials)) >= 2
    THEN Str(split(decodedCredentials)[2])
    ELSE Undefined

KasUser == <<"k", "a", "s", "_", "s">>
TestPassword == <<"T", "E", "S", "T", "_", "P", "A", "S", "S", "W", "O", "R", "D">>
ConnectionReuse ==
  <<"A", "W", "S", "_", "N", "O", "D", "E", "J", "S", "_", "C", "O", "N", "N",
    "E", "C", "T", "I", "O", "N", "_", "R", "E", "U", "S", "E", "_", "E", "N",
    "A", "B", "L", "E", "D">>

\* The credential the stacks configure: kas_s: "TEST_PASSWORD".
ConfiguredSecrets == KasUser :> TestPassword

\* The environment the stacks give the authorizer function.
Environment == ConfiguredSecrets @@ (ConnectionReuse :> <<"1">>)

\* process.env[username]
StoredPassword(username) ==
  IF username \in DOMAIN Environment THEN Str(Environment[username]) ELSE Undefined

generatePolicy(principalId, effect, resource) ==
  [kind |-> "policy", principalId |-> principalId, effect |-> effect,
   resource |-> resource]

\* throw new Error("Unauthorized")
Unauthorized ==
  [kind |-> "error", principalId |-> <<>>, effect |-> "Unauthorized",
   resource |-> ""]

\* Mutant: only the username is required.
UsernameMissing(username, password) == Falsy(username)

\* if (!username || !password)
CredentialsIncomplete(username, password) == Falsy(username) \/ Falsy(password)

\* basic-authorizer: handler
basicAuthorizer(authorizationToken, methodArn) ==
  IF Falsy(authorizationToken) THEN Unauthorized
  ELSE IF ~TokenMatch(authorizationToken.s) THEN Unauthorized
  ELSE
    LET decodedCredentials ==
          DecodeBase64(EncodedCredentials(authorizationToken.s))
        username == Username(decodedCredentials)
        password == Password(decodedCredentials)
    IN IF CredentialsIncomplete(username, password) THEN Unauthorized
       ELSE IF Falsy(StoredPassword(username.s))
         THEN generatePolicy(username.s, "Deny", methodArn)
       ELSE IF StoredPassword(username.s) # password
         THEN generatePolicy(username.s, "Deny", methodArn)
       ELSE generatePolicy(username.s, "Allow", methodArn)

\* the token of the README: kas-s:TEST_PASSWORD
DocumentedToken ==
  <<"B", "a", "s", "i", "c", " ", "a", "2", "F", "z", "L", "X", "M", "6",
   "V", "E", "V", "T", "V", "F", "9", "Q", "Q", "V", "N", "T", "V", "0", "9",
   "S", "R", "A", "=", "=">>

\* kas_s:TEST_PASSWORD
StackUserToken ==
  <<"B", "a", "s", "i", "c", " ", "a", "2", "F", "z", "X", "3", "M", "6",
   "V", "E", "V", "T", "V", "F", "9", "Q", "Q", "V", "N", "T", "V", "0", "9",
   "S", "R", "A", "=", "=">>

\* kas_s:WRONG
WrongPasswordToken ==
  <<"B", "a", "s", "i", "c", " ", "a", "2", "F", "z", "X", "3", "M", "6",
   "V", "1", "J", "P", "T", "k", "c", "=">>

\* unknown:password
UnknownUserToken ==
  <<"B", "a", "s", "i", "c", " ", "d", "W", "5", "r", "b", "m", "9", "3",
   "b", "j", "p", "w", "Y", "X", "N", "z", "d", "2", "9", "y", "Z", "A", "=",
   "=">>

\* kas_s:TEST_PASSWORD:x
LongerPasswordToken ==
  <<"B", "a", "s", "i", "c", " ", "a", "2", "F", "z", "X", "3", "M", "6",
   "V", "E", "V", "T", "V", "F", "9", "Q", "Q", "V", "N", "T", "V", "0", "9",
   "S", "R", "D", "p", "4">>

\* AWS_NODEJS_CONNECTION_REUSE_ENABLED:1
SettingToken ==
  <<"B", "a", "s", "i", "c", " ", "Q", "V", "d", "T", "X", "0", "5", "P",
   "R", "E", "V", "K", "U", "1", "9", "D", "T", "0", "5", "O", "R", "U", "N",
   "U", "S", "U", "9", "O", "X", "1", "J", "F", "V", "V", "N", "F", "X", "0",
   "V", "O", "Q", "U", "J", "M", "R", "U", "Q", "6", "M", "Q", "=", "=">>

\* kas_s:
NoPasswordToken ==
  <<"B", "a", "s", "i", "c", " ", "a", "2", "F", "z", "X", "3", "M", "6">>

\* kas_s
NoColonToken ==
  <<"B", "a", "s", "i", "c", " ", "a", "2", "F", "z", "X", "3", "M", "=">>

\* :TEST_PASSWORD
NoUsernameToken ==
  <<"B", "a", "s", "i", "c", " ", "O", "l", "R", "F", "U", "1", "R", "f",
   "U", "E", "F", "T", "U", "1", "d", "P", "U", "k", "Q", "=">>

\* another scheme
BearerToken ==
  <<"B", "e", "a", "r", "e", "r", " ", "s", "o", "m", "e", "t", "o", "k",
   "e", "n", "1", "2", "3">>

\* the scheme in lower case
LowerCaseSchemeToken ==
  <<"b", "a", "s", "i", "c", " ", "a", "2", "F", "z", "X", "3", "M", "6",
   "V", "E", "V", "T", "V", "F", "9", "Q", "Q", "V", "N", "T", "V", "0", "9",
   "S", "R", "A", "=", "=">>

\* the scheme and nothing after it
SchemeOnlyToken ==
  <<"B", "a", "s", "i", "c", " ">>

\* authorizationToken: ""
EmptyToken ==
  <<>>

\* kas_s::x
DoubleColonToken ==
  <<"B", "a", "s", "i", "c", " ", "a", "2", "F", "z", "X", "3", "M", "6",
   "O", "n", "g", "=">>

\* The Authorization headers of the requests: none, and the tokens above.
Tokens ==
  {Undefined} \cup
  {Str(t) : t \in {DocumentedToken, StackUserToken, WrongPasswordToken,
                   UnknownUserToken, LongerPasswordToken, SettingToken,
                   NoPasswordToken, NoColonToken, NoUsernameToken,
                   DoubleColonToken, BearerToken, LowerCaseSchemeToken,
                   SchemeOnlyToken, EmptyToken}}

\* ------------------------------------------------------------------ import-products-file

UploadedPrefix == <<"u", "p", "l", "o", "a", "d", "e", "d", "/">>
CsvSuffix == <<".", "c", "s", "v">>

\* The values of the query parameter name: none, and these names.
FileNames ==
  {Undefined} \cup
  {Str(n) : n \in {<<>>,
                   <<"a", ".", "c", "s", "v">>,
                   <<".", "c", "s", "v">>,
                   <<"a", ".", "C", "S", "V">>,
                   <<"a", ".", "p", "d", "f">>,
                   <<"a">>,
                   <<"a", " ", "b", ".", "c", "s", "v">>,
                   <<" ", "a", ".", "c", "s", "v">>,
                   <<"a", "_", "v", "2", ".", "0", ".", "c", "s", "v">>,
                   <<"a", ".", "c", "s", "v", ".", "t", "x", "t">>,
                   <<"a", ".", "c", "s", "v", " ">>}}

\* Mutant: ".csv" anywhere in the name will do.
HasCsvInside(fileName) ==
  \E i \in 1..(Len(fileName) - Len(CsvSuffix) + 1) :
    SubSeq(fileName, i, i + Len(CsvSuffix) - 1) = CsvSuffix

\* fileName.endsWith(".csv")
IsCsvName(fileName) == endsWith(fileName, CsvSuffix)

\* Mutant: the key is made of the name without the blanks around it.
ObjectKeyTrimmed(fileName) == UploadedPrefix \o trim(fileName)

\* const key = `uploaded/${fileName}`
ObjectKey(fileName) == UploadedPrefix \o fileName

\* getSignedUrl(s3Client, new PutObjectCommand({ Bucket, Key, ContentType }))
SignedUrl(key) == [bucket |-> "BUCKET_NAME", key |-> key, contentType |-> "text/csv"]

\* The resource of GET /import.
MethodArn == "GET/import"

NoDecision == [kind |-> "none", principalId |-> <<>>, effect |-> "", resource |-> ""]

\* Mutant: the authorizer's results are cached for the default five minutes.
CachedFiveMinutes == 5 * 60

\* TokenAuthorizer: resultsCacheTtl: cdk.Duration.seconds(0)
resultsCacheTtl == 0

NoCache == [token |-> Null, auth |-> NoDecision]

IdleGateway ==
  [pc |-> "idle", token |-> Undefined, name |-> Undefined, auth |-> NoDecision,
   key |-> <<>>, signCalls |-> 0, signed |-> <<>>,
   response |-> Response(0, [message |-> ""]),
   requests |-> 0, authCalls |-> 0, cache |-> NoCache, ran |-> FALSE,
   last |-> NoCache]

\* The request as the gateway takes it up: the policy cached for the token
\* is used while the cache holds one, otherwise the authorizer is invoked.
Authorized(g, token) ==
  LET cached == resultsCacheTtl > 0 /\ g.cache.token = token
      auth == IF cached THEN g.cache.auth ELSE basicAuthorizer(token, MethodArn)
  IN [g EXCEPT !.token = token, !.auth = auth,
               !.requests = g.requests + 1,
               !.authCalls = IF cached THEN g.authCalls ELSE g.authCalls + 1,
               !.cache = IF resultsCacheTtl > 0 /\ auth.kind = "policy"
                           THEN [token |-> token, auth |-> auth]
                           ELSE g.cache]

\* A request to GET /import: the token authorizer runs first (its results are
\* not cached); the method is invoked on an Allow for its resource, a Deny is
\* answered with 403 and the Unauthorized error with 401.  Requests share
\* nothing, so a behaviour follows one of them.
ImportApi_Authorize(token, name) ==
  /\ gw.pc = "idle"
  /\ token \in Tokens
  /\ name \in FileNames
  /\ LET request == Authorized(gw, token)
         auth == request.auth
     IN gw' = IF auth.kind = "error"
                THEN [request EXCEPT
                        !.pc = "done", !.name = name,
                        !.response = Response(401, [message |-> "Unauthorized"])]
              ELSE IF auth.effect = "Allow" /\ auth.resource = MethodArn
                THEN [request EXCEPT !.pc = "invoke", !.name = name]
              ELSE [request EXCEPT
                      !.pc = "done", !.name = name,
                      !.response = Response(403, [message |-> "Forbidden"])]
  /\ UNCHANGED <<products, stock, nextId, bodies, topicArn, dc, cb, lastGet, ls,
                 fp, queue>>

\* The next request to GET /import comes in when the last one is answered.
ImportApi_NextRequest ==
  /\ gw.pc = "done"
  /\ gw.requests < MaxRequests
  /\ gw' = [IdleGateway EXCEPT
              !.requests = gw.requests, !.authCalls = gw.authCalls,
              !.cache = gw.cache,
              !.last = [token |-> gw.token, auth |-> gw.auth]]
  /\ UNCHANGED <<products, stock, nextId, bodies, topicArn, dc, cb, lastGet, ls,
                 fp, queue>>

\* import-products-file up to getSignedUrl: the two checks of the name.
ImportProductsFile_Request ==
  /\ gw.pc = "invoke"
  /\ gw' = IF Falsy(gw.name)
             THEN [gw EXCEPT
                     !.pc = "done", !.ran = TRUE,
                     !.response =
                       Response(400, [message |->
                                        "Missing required query parameter: name"])]
           ELSE IF ~IsCsvName(gw.name.s)
             THEN [gw EXCEPT
                     !.pc = "done", !.ran = TRUE,
                     !.response =
                       Response(400, [message |-> "File must be a CSV file"])]
           ELSE [gw EXCEPT !.pc = "sign", !.ran = TRUE,
                           !.key = ObjectKey(gw.name.s)]
  /\ UNCHANGED <<products, stock, nextId, bodies, topicArn, dc, cb, lastGet, ls,
                 fp, queue>>

\* getSignedUrl, then the 200 answer; a failure lands in the catch.
ImportProductsFile_Sign(ok) ==
  /\ gw.pc = "sign"
  /\ gw' = IF ok
             THEN [gw EXCEPT
                     !.pc = "done", !.signCalls = gw.signCalls + 1,
                     !.signed = Append(gw.signed, gw.key),
                     !.response =
                       Response(200, [signedUrl |-> SignedUrl(gw.key),
                                      key |-> gw.key])]
             ELSE [gw EXCEPT
                     !.pc = "done", !.signCalls = gw.signCalls + 1,
                     !.response =
                       Response(500, [message |-> "Internal server error"])]
  /\ UNCHANGED <<products, stock, nextId, bodies, topicArn, dc, cb, lastGet, ls,
                 fp, queue>>

\* ------------------------------------------------------------------ import-file-parser

\* A second row of a file: a price that is no number and no count.
CsvRowNoPrice ==
  Body("object", Str(<<"a">>), Str(<<"d">>), Str(<<"x">>), Str(<<>>))

\* JSON.stringify(data) of the rows csv-parser emits.
Rows == {CsvRow, CsvRowNoPrice}
Files == SeqsUpTo(Rows, MaxRows)

\* A key outside the prefix the notification is configured for.
OutsideKey == <<"o", "/", "a", ".", "c", "s", "v">>

\* The keys of the objects created in the bucket: an upload, the placeholder
\* the deployment puts under the prefix, an upload with a space and a plus
\* sign in its name, and an object outside the prefix.
ObjectKeys ==
  {ObjectKey(<<"a", ".", "c", "s", "v">>), ObjectKey(<<".", "k", "e", "e", "p">>),
   ObjectKey(<<"a", " ", "+", ".", "c", "s", "v">>), OutsideKey}

\* The objects created in the bucket: the upload with any file as content, the
\* others with one row.
Objects ==
  {[key |-> ObjectKey(<<"a", ".", "c", "s", "v">>), rows |-> rows] : rows \in Files}
    \cup {[key |-> key, rows |-> <<CsvRow>>] : key \in ObjectKeys}

\* The key as the notification carries it: URL-encoded, a space as "+".
RECURSIVE S3EventKey(_)
S3EventKey(key) ==
  IF key = <<>> THEN <<>>
  ELSE (IF Head(key) = " " THEN <<"+">>
        ELSE IF Head(key) = "+" THEN <<"%", "2", "B">>
        ELSE IF Head(key) = "%" THEN <<"%", "2", "5">>
        ELSE <<Head(key)>>) \o S3EventKey(Tail(key))

\* filters: { prefix: "uploaded/" } and the records of the event
RECURSIVE Notified(_)
Notified(objects) ==
  IF objects = <<>> THEN <<>>
  ELSE IF StartsWith(Head(objects).key, UploadedPrefix)
    THEN <<[key |-> S3EventKey(Head(objects).key), rows |-> Head(objects).rows]>>
           \o Notified(Tail(objects))
    ELSE Notified(Tail(objects))

\* key.replace(/\+/g, " ")
ReplacePlus(key) == [k \in 1..Len(key) |-> IF key[k] = "+" THEN " " ELSE key[k]]

HexDigits == <<"0", "1", "2", "3", "4", "5", "6", "7", "8", "9",
               "A", "B", "C", "D", "E", "F">>
IsHex(c) == \E k \in 1..16 : HexDigits[k] = c
HexVal(c) == (CHOOSE k \in 1..16 : HexDigits[k] = c) - 1

\* decodeURIComponent: every %XY becomes the character of that code; a "%"
\* that no two hexadecimal digits follow is a URIError.
RECURSIVE decodeURIComponent(_)
decodeURIComponent(s) ==
  IF s = <<>> THEN [ok |-> TRUE, s |-> <<>>]
  ELSE IF Head(s) # "%"
    THEN LET rest == decodeURIComponent(Tail(s))
         IN [ok |-> rest.ok, s |-> <<Head(s)>> \o rest.s]
  ELSE IF Len(s) < 3 \/ ~IsHex(s[2]) \/ ~IsHex(s[3])
    THEN [ok |-> FALSE, s |-> <<>>]
  ELSE LET rest == decodeURIComponent(SubSeq(s, 4, Len(s)))
       IN [ok |-> rest.ok,
           s |-> <<ByteToChar(16 * HexVal(s[2]) + HexVal(s[3]))>> \o rest.s]

\* const key = decodeURIComponent(record.s3.object.key.replace(/\+/g, " "))
RecordKey(record) == decodeURIComponent(ReplacePlus(record.key))

IdleParser ==
  [pc |-> "idle", key |-> <<>>, rows |-> <<>>, read |-> 0, sends |-> <<>>,
   before |-> EmptyBag, error |-> "", created |-> <<>>, event |-> <<>>,
   r |-> 0, handled |-> <<>>, gets |-> <<>>, settled |-> <<>>]

\* Mutant: a failed submission fails the invocation.
SendCatchRethrow(f, k) ==
  [f EXCEPT !.sends[k] = "failed", !.settled = Append(f.settled, k),
            !.pc = "rejected", !.error = "send"]

\* .catch((error) => { console.error(...) }) of one row's submission
SendCatch(f, k) ==
  [f EXCEPT !.sends[k] = "failed", !.settled = Append(f.settled, k)]

\* Mutant: resolve() is called without waiting for the submissions.
NoneAwaited(f) == TRUE

\* await Promise.all(promises): every submission pushed has settled.
AllSettled(f) == \A k \in 1..Len(f.sends) : f.sends[k] # "pending"

\* Mutant: the record that is passed over ends the loop.
NextRecordBreak(f, outcome) ==
  [f EXCEPT !.pc = "loop", !.r = Len(f.event) + 1,
            !.handled = Append(f.handled, outcome)]

\* continue / the end of the loop body: on to the next record of the event.
NextRecord(f, outcome) ==
  [f EXCEPT !.pc = "loop", !.r = f.r + 1, !.handled = Append(f.handled, outcome)]

\* Mutant: the catch logs the error and the loop goes on with the next record.
ParserCatchAndContinue(f, error) ==
  [NextRecord(f, "failed") EXCEPT !.error = error]

\* handler: catch (error) { console.error(...); throw error; }
ParserCatch(f, error) == [f EXCEPT !.pc = "rejected", !.error = error]

\* Objects are created in the bucket; the notification invokes the handler
\* with one record for each object under the prefix.
ImportFileParser_Invoke(objects) ==
  /\ fp.pc = "idle"
  /\ Len(objects) <= MaxRecords
  /\ \A k \in 1..Len(objects) : objects[k] \in Objects
  /\ Notified(objects) # <<>>
  /\ LET total[k \in 0..Len(objects)] ==
           IF k = 0 THEN 0 ELSE total[k - 1] + Len(objects[k].rows)
     IN BagCardinality(queue) + total[Len(objects)] <= MaxQueue
  /\ fp' = [IdleParser EXCEPT !.pc = "loop", !.created = objects,
                              !.event = Notified(objects), !.r = 1,
                              !.before = queue]
  /\ UNCHANGED <<products, stock, nextId, bodies, topicArn, dc, cb, lastGet, ls,
                 gw, queue>>

\* The head of the loop body: the key of the record is decoded, and a key
\* that does not end in ".csv" is passed over.
ImportFileParser_Record ==
  /\ fp.pc = "loop"
  /\ fp.r <= Len(fp.event)
  /\ LET key == RecordKey(fp.event[fp.r])
     IN fp' = IF ~key.ok
                THEN ParserCatch(fp, "key")
              ELSE IF ~endsWith(key.s, CsvSuffix)
                THEN NextRecord(fp, "skipped")
              ELSE [fp EXCEPT !.pc = "get", !.key = key.s,
                              !.rows = fp.event[fp.r].rows, !.read = 0,
                              !.sends = <<>>, !.settled = <<>>,
                              !.before = queue]
  /\ UNCHANGED <<products, stock, nextId, bodies, topicArn, dc, cb, lastGet, ls,
                 gw, queue>>

\* s3Client.send(GetObjectCommand): a body to stream, no body, or an error.
ImportFileParser_GetObject(outcome) ==
  /\ fp.pc = "get"
  /\ outcome \in {"body", "no body", "error"}
  /\ fp' = IF outcome = "body"
             THEN [fp EXCEPT !.pc = "stream", !.gets = Append(fp.gets, fp.key)]
           ELSE IF outcome = "no body"
             THEN [NextRecord(fp, "no body") EXCEPT
                     !.gets = Append(fp.gets, fp.key)]
           ELSE ParserCatch([fp EXCEPT !.gets = Append(fp.gets, fp.key)],
                            "get object")
  /\ UNCHANGED <<products, stock, nextId, bodies, topicArn, dc, cb, lastGet, ls,
                 gw, queue>>

\* parser.on("data"): the submission of the next row is started.
ImportFileParser_Data ==
  /\ fp.pc = "stream"
  /\ fp.read < Len(fp.rows)
  /\ fp' = [fp EXCEPT !.read = fp.read + 1, !.sends = Append(fp.sends, "pending")]
  /\ UNCHANGED <<products, stock, nextId, bodies, topicArn, dc, cb, lastGet, ls,
                 gw, queue>>

\* The SendMessageCommand of row k settles: the message is in the queue, or
\* the error is logged.  Submissions run concurrently and settle in any order.
ImportFileParser_SendSettled(k, ok) ==
  /\ fp.pc \in {"stream", "join", "rejected"}
  /\ k \in 1..Len(fp.sends)
  /\ fp.sends[k] = "pending"
  /\ IF ok
       THEN /\ queue' = queue (+) SetToBag({fp.rows[k]})
            /\ fp' = [fp EXCEPT !.sends[k] = "sent",
                                !.settled = Append(fp.settled, k)]
       ELSE /\ fp' = SendCatch(fp, k)
            /\ UNCHANGED queue
  /\ UNCHANGED <<products, stock, nextId, bodies, topicArn, dc, cb, lastGet, ls,
                 gw>>

\* parser.on("end"): every row was read; the handler joins the submissions.
ImportFileParser_End ==
  /\ fp.pc = "stream"
  /\ fp.read = Len(fp.rows)
  /\ fp' = [fp EXCEPT !.pc = "join"]
  /\ UNCHANGED <<products, stock, nextId, bodies, topicArn, dc, cb, lastGet, ls,
                 gw, queue>>

\* await Promise.all(promises); resolve(): the loop goes on to the next record.
ImportFileParser_Resolve ==
  /\ fp.pc = "join"
  /\ AllSettled(fp)
  /\ fp' = NextRecord(fp, "resolved")
  /\ UNCHANGED <<products, stock, nextId, bodies, topicArn, dc, cb, lastGet, ls,
                 gw, queue>>

\* The loop has passed the last record: the handler returns.
ImportFileParser_Return ==
  /\ fp.pc = "loop"
  /\ fp.r > Len(fp.event)
  /\ fp' = [fp EXCEPT !.pc = "resolved"]
  /\ UNCHANGED <<products, stock, nextId, bodies, topicArn, dc, cb, lastGet, ls,
                 gw, queue>>

\* parser.on("error"): reject(error), and the handler throws.
ImportFileParser_StreamError ==
  /\ fp.pc = "stream"
  /\ fp' = ParserCatch(fp, "stream")
  /\ UNCHANGED <<products, stock, nextId, bodies, topicArn, dc, cb, lastGet, ls,
                 gw, queue>>

\* ------------------------------------------------------------------ specifications

CreateNext ==
  \/ \E b \in bodies : CreateProduct_Request(b)
  \/ \E ok \in BOOLEAN : CreateProduct_PutProduct(ok)
  \/ \E ok \in BOOLEAN : CreateProduct_PutStock(ok)
  \/ \E batch \in SeqsUpTo(QueueBodies, MaxBatch) : Consumer_Invoke(batch)
  \/ Consumer_ProcessRecord
  \/ \E ok \in BOOLEAN : Consumer_TransactWrite(ok)
  \/ Consumer_Notify
  \/ \E ok \in BOOLEAN : Consumer_Publish(ok)

Next ==
  \/ CreateNext
  \/ \E productId \in 0..MaxIds, ok \in BOOLEAN : GetProductsById(productId, ok)

\* The creation paths over the system's bodies.
Spec == Init /\ [][CreateNext]_vars

\* Creation and reads, one body under test.
InitCatalog == InitCommon /\ bodies \in {{b} : b \in SystemBodies} /\ topicArn
SpecCatalog == InitCatalog /\ [][Next]_vars

\* The creation paths alone, one body under test.
SpecPayload == InitPayload /\ [][CreateNext]_vars

\* Creation and the list, one body under test.
ListNext ==
  \/ CreateNext
  \/ \E ok \in BOOLEAN : GetProductsList_Scan(ok)
  \/ \E ok \in BOOLEAN : GetProductsList_GetStock(ok)
SpecList == InitCatalog /\ [][ListNext]_vars

\* GET /import: the authorizer and import-products-file.
ImportNext ==
  \/ \E token \in Tokens, name \in FileNames : ImportApi_Authorize(token, name)
  \/ ImportProductsFile_Request
  \/ \E ok \in BOOLEAN : ImportProductsFile_Sign(ok)
SpecImport == Init /\ [][ImportNext]_vars

\* The row extractor and the queue it fills.
ParserNext ==
  \/ /\ fp.pc = "idle"
     /\ \E objects \in SeqsUpTo(Objects, MaxRecords) : ImportFileParser_Invoke(objects)
  \/ ImportFileParser_Record
  \/ \E outcome \in {"body", "no body", "error"} : ImportFileParser_GetObject(outcome)
  \/ ImportFileParser_Data
  \/ \E k \in 1..MaxRows, ok \in BOOLEAN : ImportFileParser_SendSettled(k, ok)
  \/ ImportFileParser_End
  \/ ImportFileParser_Resolve
  \/ ImportFileParser_Return
  \/ ImportFileParser_StreamError
SpecParser == Init /\ [][ParserNext]_vars

\* The creation paths with the queue delivering a failed batch again.
QueueNext ==
  \/ CreateNext
  \/ Consumer_Redeliver
\* A product and a message that fails validation.
InitQueue == InitCommon /\ bodies = {PlainProduct, ZeroPrice} /\ topicArn
SpecQueue == InitQueue /\ [][QueueNext]_vars

\* GET /import, one request after another: a token that is allowed, tokens
\* that are denied, one that is no Basic token and no token at all, and
\* tokens whose credentials have a third segment; a name that is accepted,
\* one that is not and none.
GatewayTokens ==
  {Undefined, Str(StackUserToken), Str(WrongPasswordToken),
   Str(DocumentedToken), Str(BearerToken), Str(LongerPasswordToken),
   Str(NoPasswordToken), Str(DoubleColonToken)}
GatewayNames ==
  {Undefined, Str(<<"a", ".", "c", "s", "v">>), Str(<<"a", ".", "p", "d", "f">>)}
GatewayNext ==
  \/ \E token \in GatewayTokens, name \in GatewayNames :
       ImportApi_Authorize(token, name)
  \/ ImportApi_NextRequest
  \/ ImportProductsFile_Request
  \/ \E ok \in BOOLEAN : ImportProductsFile_Sign(ok)
SpecGateway == Init /\ [][GatewayNext]_vars

\* The import pipeline: an uploaded file, the row extractor, the queue and the
\* consumer that takes its batches from the queue.
PipelineNext ==
  \/ /\ fp.pc = "idle"
     /\ \E rows \in Files :
          ImportFileParser_Invoke(
            <<[key |-> ObjectKey(<<"a", ".", "c", "s", "v">>), rows |-> rows]>>)
  \/ ImportFileParser_Record
  \/ \E outcome \in {"body", "no body", "error"} : ImportFileParser_GetObject(outcome)
  \/ ImportFileParser_Data
  \/ \E k \in 1..MaxRows, ok \in BOOLEAN : ImportFileParser_SendSettled(k, ok)
  \/ ImportFileParser_End
  \/ ImportFileParser_Resolve
  \/ ImportFileParser_Return
  \/ ImportFileParser_StreamError
  \/ Consumer_Receive
  \/ Consumer_Redeliver
  \/ Consumer_ProcessRecord
  \/ \E ok \in BOOLEAN : Consumer_TransactWrite(ok)
  \/ Consumer_Notify
  \/ \E ok \in BOOLEAN : Consumer_Publish(ok)
SpecPipeline == Init /\ [][PipelineNext]_vars

\* ------------------------------------------------------------------ claims

\* The rows written for one created product are in both tables and carry
\* what the consumer parsed from the message.
Committed(created, body) ==
  /\ created.id \in DOMAIN products
  /\ created.id \in DOMAIN stock
  /\ products[created.id] =
       ProductItem(created.id, ParseRecord(body).title,
                   ParseRecord(body).description, ParseRecord(body).price)
  /\ stock[created.id] =
       StockItem(created.id, CountOrZero(ParseRecord(body).count))
  /\ created = Created(created.id, ParseRecord(body))

\* C1: in every reachable catalog state an identifier has a Stock row exactly
\* when it has a Product record, on both creation paths and whichever storage
\* call fails.
C1_CreatedTogether ==
  \A id \in Ids : (id \in DOMAIN products) <=> (id \in DOMAIN stock)

\* C2: when the handling of message k of a consumer invocation fails, the
\* invocation ends in failure at k, the products of messages 1..k-1 are
\* committed, a write was attempted for exactly those messages (and for k only
\* when it was the write of k that failed), and nothing is notified.
C2_FailFast ==
  cb.error # "" =>
    /\ cb.pc = "rejected"
    /\ cb.i \in 1..Len(cb.records)
    /\ Len(cb.createdProducts) = cb.i - 1
    /\ \A j \in 1..(cb.i - 1) : Committed(cb.createdProducts[j], cb.records[j])
    /\ (cb.error = "write failed") <=> ParseRecord(cb.records[cb.i]).ok
    /\ cb.writes = (cb.i - 1) + (IF cb.error = "write failed" THEN 1 ELSE 0)
    /\ cb.notifierArgs = <<>>
    /\ cb.publishCalls = 0
    /\ cb.published = <<>>

\* C2 witness: a batch of two whose second message is rejected by validation
\* after the first was committed.
C2_Witness ==
  /\ cb.pc = "rejected"
  /\ Len(cb.records) = 2
  /\ cb.i = 2
  /\ cb.error = "Product price must be a positive number"
  /\ Len(cb.createdProducts) = 1
  /\ cb.createdProducts[1].id \in DOMAIN products

\* C3: when all N messages of an invocation are valid and all writes succeed,
\* exactly N pairs are committed, one per message, and the notifier is called
\* exactly once with all N created products when N >= 1 and never when N = 0
\* (and no write happens when N = 0).
C3_AllCommittedOneNotification ==
  /\ (cb.pc = "loop" /\ cb.i > Len(cb.records)) =>
       /\ Len(cb.createdProducts) = Len(cb.records)
       /\ cb.writes = Len(cb.records)
       /\ \A j \in 1..Len(cb.records) :
            Committed(cb.createdProducts[j], cb.records[j])
       /\ \A j, k \in 1..Len(cb.records) :
            j # k => cb.createdProducts[j].id # cb.createdProducts[k].id
  /\ (cb.pc = "resolved" /\ cb.error = "") =>
       /\ Len(cb.createdProducts) = Len(cb.records)
       /\ cb.writes = Len(cb.records)
       /\ \A j \in 1..Len(cb.records) :
            Committed(cb.createdProducts[j], cb.records[j])
       /\ cb.notifierArgs =
            (IF Len(cb.records) >= 1 THEN <<cb.createdProducts>> ELSE <<>>)
       /\ cb.publishCalls = (IF Len(cb.records) >= 1 THEN 1 ELSE 0)
       /\ cb.published \in {<<>>, <<Notification(cb.createdProducts)>>}

\* C3 witness: a batch of two different valid messages, both committed and
\* named in the one notification published.
C3_Witness ==
  /\ cb.pc = "resolved"
  /\ cb.records = <<PlainProduct, CsvRow>>
  /\ cb.writes = 2
  /\ Len(cb.notifierArgs) = 1
  /\ cb.published = <<Notification(cb.createdProducts)>>
  /\ cb.published[1].count = 2

\* C4: a failed publish is not propagated: once the publish of an invocation
\* was attempted, whether it succeeded or failed, the invocation completes
\* successfully and the products it created are in the catalog as written.
C4_PublishFailureSwallowed ==
  cb.publishCalls > 0 =>
    /\ cb.pc = "resolved"
    /\ cb.error = ""
    /\ Len(cb.createdProducts) = Len(cb.records)
    /\ \A j \in 1..Len(cb.records) :
         Committed(cb.createdProducts[j], cb.records[j])

\* C4 witness: the publish failed after a product was committed.
C4_Witness ==
  /\ cb.publishCalls = 1
  /\ cb.published = <<>>
  /\ cb.pc = "resolved"
  /\ Len(cb.createdProducts) >= 1
  /\ cb.createdProducts[1].id \in DOMAIN products

\* A title made of blanks only (the empty title included).
BlankTitle(b) ==
  typeof(b.title) = "string" /\ \A k \in 1..Len(b.title.s) : b.title.s[k] = " "

\* A price that is a number, or a numeric string, not above zero.
PriceNotPositive(b) ==
  \/ typeof(b.price) = "number" /\ b.price.n <= 0
  \/ /\ typeof(b.price) = "string"
     /\ ~isNaN(parseFloat(b.price.s))
     /\ parseFloat(b.price.s).n <= 0

BadPayload(b) ==
  /\ b.kind = "object"
  /\ PriceNotPositive(b) \/ BlankTitle(b) \/ typeof(b.description) # "string"

\* A title with a character that is no blank, a string description and a
\* number above zero as price.
ValidPayload(b) ==
  /\ b.kind = "object"
  /\ typeof(b.title) = "string"
  /\ \E k \in 1..Len(b.title.s) : b.title.s[k] # " "
  /\ typeof(b.description) = "string"
  /\ typeof(b.price) = "number"
  /\ b.price.n > 0

\* C5: a payload with price <= 0, a blank title or a non-string description is
\* rejected on both paths before any write: with only such a payload
\* delivered, no identifier is assigned, the catalog stays as it was (empty),
\* direct create answers 400 and the consumer fails at its first message
\* without a write.
C5_RejectedBeforeWrite ==
  \A b \in bodies :
    (bodies = {b} /\ BadPayload(b)) =>
      /\ products = NoTable
      /\ stock = NoTable
      /\ nextId = 1
      /\ dc.pc # "idle" => (dc.pc = "done" /\ dc.response.statusCode = 400)
      /\ cb.writes = 0
      /\ cb.createdProducts = <<>>
      /\ cb.notifierArgs = <<>>
      /\ (cb.pc # "idle" /\ cb.records # <<>>) =>
           (cb.i = 1 /\ cb.pc \in {"loop", "rejected"})

\* C5 witness: a negative price was rejected by direct create and by the
\* consumer.
C5_Witness ==
  /\ \E b \in bodies : BadPayload(b) /\ b.price = Num(-10) /\ ~BlankTitle(b)
  /\ dc.pc = "done"
  /\ dc.response.statusCode = 400
  /\ cb.pc = "rejected"
  /\ cb.error = "Product price must be a positive number"

\* The count a payload supplies, where that is beyond doubt: none (0), a
\* number, or the numeric string "3".
ClearCount(b) ==
  b.count = Undefined \/ typeof(b.count) = "number" \/ b.count = Str(<<"3">>)
SuppliedCount(b) ==
  IF b.count = Undefined THEN Num(0)
  ELSE IF b.count = Str(<<"3">>) THEN Num(3 * Unit)
  ELSE b.count

\* C6: for every payload with a non-blank title, a string description and a
\* price above zero, direct create (when no storage call fails) answers 201
\* with a new identifier, the submitted title, description and price and the
\* supplied count (0 when none was supplied), and stores the same values.
C6_CreateReturnsSupplied ==
  \A b \in bodies :
    (/\ ValidPayload(b)
     /\ ClearCount(b)
     /\ dc.pc = "done"
     /\ dc.data = b
     /\ dc.response.statusCode # 500) =>
      /\ dc.response.statusCode = 201
      /\ dc.productId \in Ids
      /\ dc.response.body =
           [id |-> dc.productId, title |-> b.title.s,
            description |-> b.description.s, price |-> b.price,
            count |-> SuppliedCount(b)]
      /\ products[dc.productId] =
           ProductItem(dc.productId, b.title.s, b.description.s, b.price)
      /\ stock[dc.productId] = StockItem(dc.productId, SuppliedCount(b))

\* What each path decided about the body under test.
DirectRejected == dc.pc = "done" /\ dc.productId = 0
DirectAccepted == dc.productId # 0
ConsumerRejected ==
  cb.records # <<>> /\ cb.i = 1 /\ cb.error \notin {"", "write failed"}
ConsumerAccepted == cb.records # <<>> /\ cb.writes >= 1

\* The cases the claim names: price and count absent, a number (negative and
\* non-integer included) or a numeric string.
NumericMembers(b) ==
  /\ b.price = Undefined \/ typeof(b.price) = "number"
       \/ (typeof(b.price) = "string" /\ ~isNaN(parseFloat(b.price.s)))
  /\ b.count = Undefined \/ typeof(b.count) = "number"
       \/ (typeof(b.count) = "string" /\ ~isNaN(parseFloat(b.count.s)))

\* C7: direct create and the consumer validate identically: a body is never
\* accepted by one and rejected by the other, and the rows both store for it
\* carry the same title, description, price and count.
C7_ValidateIdentically ==
  \A b \in bodies :
    (bodies = {b} /\ b.kind = "object" /\ NumericMembers(b)) =>
      /\ ~(DirectRejected /\ ConsumerAccepted)
      /\ ~(DirectAccepted /\ ConsumerRejected)
      /\ \A i, j \in DOMAIN products :
           /\ products[i].title = products[j].title
           /\ products[i].description = products[j].description
           /\ products[i].price = products[j].price
      /\ \A i, j \in DOMAIN stock : stock[i].count = stock[j].count

\* Counts the consumer is to reject: not numeric, or negative.
RejectedCount(b) ==
  b.count \in {Str(<<"x">>), True, Str(<<"-", "1">>)}
  \/ (typeof(b.count) = "number" /\ b.count.n < 0)
\* Counts the consumer is to accept as they are.
AcceptedCount(b) ==
  b.count \in {Undefined, Str(<<"3">>)}
  \/ (typeof(b.count) = "number" /\ b.count.n >= 0)

\* C8: in the consumer an absent count yields stock 0, a number or numeric
\* string yields that number, and a non-numeric or negative count (number or
\* string) rejects the message without a write.
C8_ConsumerCount ==
  \A b \in bodies :
    (bodies = {b} /\ ValidPayload(b)) =>
      /\ RejectedCount(b) => (cb.writes = 0 /\ cb.createdProducts = <<>>)
      /\ AcceptedCount(b) =>
           /\ ~ConsumerRejected
           /\ \A j \in 1..Len(cb.createdProducts) :
                /\ cb.createdProducts[j].count = SuppliedCount(b)
                /\ stock[cb.createdProducts[j].id].count = SuppliedCount(b)

\* C9: the count of every Stock row is a non-negative integer.
C9_StockCountNatural ==
  \A id \in DOMAIN stock :
    IsInteger(stock[id].count) /\ stock[id].count.n >= 0

\* C10: get-by-id of an identifier that has a Product answers 200 with the
\* stored Product members plus the count of its Stock row.
C10_GetByIdWithCount ==
  (lastGet.response.statusCode = 200 /\ lastGet.productId \in DOMAIN stock) =>
    /\ lastGet.productId \in DOMAIN products
    /\ lastGet.response.body =
         CreatedBody(products[lastGet.productId], stock[lastGet.productId].count)

\* C11: get-by-id of an identifier that has no Product, in whatever state
\* the creations have left the catalog, never answers 200 or a product body:
\* the answer is 404 once the read of the products table was served.
C11_UnknownIdNotFound ==
  (lastGet.productId \in Ids /\ lastGet.productId \notin DOMAIN products) =>
    /\ lastGet.response.statusCode # 200
    /\ lastGet.response.body = MessageBody
    /\ lastGet.served => lastGet.response.statusCode = 404

\* C11 witness: with a product in the catalog, another identifier was asked
\* for and answered with 404.
C11_Witness ==
  /\ DOMAIN products # {}
  /\ lastGet.productId \in Ids
  /\ lastGet.productId \notin DOMAIN products
  /\ lastGet.served
  /\ lastGet.response.statusCode = 404

\* C12: a 200 answer of the list carries every Product the catalog held when
\* the request was served, each with its stored members and with the count of
\* the Stock row of the same identifier, after one stock lookup per product.
C12_ListWithStockCounts ==
  (ls.pc = "done" /\ ls.response.statusCode = 200) =>
    /\ {ls.response.body[j].id : j \in DOMAIN ls.response.body} = ls.catalog
    /\ Len(ls.response.body) = Cardinality(ls.catalog)
    /\ ls.lookups = Len(ls.response.body)
    /\ \A j \in DOMAIN ls.response.body :
         LET item == ls.response.body[j]
         IN /\ products[item.id] =
                 ProductItem(item.id, item.title, item.description, item.price)
            /\ item.id \in DOMAIN stock
            /\ item.count = stock[item.id].count

\* What a request says about the name, read off the name itself.
NameMissing(name) == name = Undefined \/ name = Str(<<>>)
EndsInCsv(n) ==
  /\ Len(n) >= 4
  /\ <<n[Len(n) - 3], n[Len(n) - 2], n[Len(n) - 1], n[Len(n)]>>
       = <<".", "c", "s", "v">>
\* import-products-file ran for the request (the authorizer allowed it).
UploadHandled == gw.auth.effect = "Allow" /\ gw.pc \in {"sign", "done"}

\* C13: an upload-URL request whose name is missing or empty is answered with
\* status 400 (missing parameter), one whose name does not end in ".csv" in
\* lower case with status 400 (not a CSV file); the empty name gets the first
\* answer, and in both cases no URL is signed and no storage call is made.
C13_BadNameRejected ==
  UploadHandled =>
    /\ NameMissing(gw.name) =>
         /\ gw.pc = "done"
         /\ gw.response =
              Response(400, [message |-> "Missing required query parameter: name"])
         /\ gw.signCalls = 0
         /\ gw.signed = <<>>
    /\ (~NameMissing(gw.name) /\ ~EndsInCsv(gw.name.s)) =>
         /\ gw.pc = "done"
         /\ gw.response = Response(400, [message |-> "File must be a CSV file"])
         /\ gw.signCalls = 0
         /\ gw.signed = <<>>

\* C13 witness: the name "a.CSV" was refused.
C13_Witness ==
  /\ UploadHandled
  /\ gw.name = Str(<<"a", ".", "C", "S", "V">>)
  /\ gw.response.statusCode = 400

\* The key the claim names: "uploaded/" and the name as it came.
UploadedKey(name) == <<"u", "p", "l", "o", "a", "d", "e", "d", "/">> \o name

\* C14: for every name ending in ".csv" the upload-URL request, unless the
\* signing fails, is answered with status 200 and the key "uploaded/" + name,
\* the name unchanged, and the one URL signed is for that key.
C14_KeyIsUploadedName ==
  (UploadHandled /\ ~NameMissing(gw.name) /\ EndsInCsv(gw.name.s)) =>
    /\ gw.key = UploadedKey(gw.name.s)
    /\ (gw.pc = "done" /\ gw.response.statusCode # 500) =>
         /\ gw.response.statusCode = 200
         /\ gw.response.body.key = UploadedKey(gw.name.s)
         /\ gw.response.body.signedUrl = SignedUrl(UploadedKey(gw.name.s))
         /\ gw.signed = <<UploadedKey(gw.name.s)>>
         /\ gw.signCalls = 1

\* C14 witness: a name with a blank before it was given its key.
C14_Witness ==
  /\ UploadHandled
  /\ gw.name = Str(<<" ", "a", ".", "c", "s", "v">>)
  /\ gw.response.statusCode = 200
  /\ gw.response.body.key =
       <<"u", "p", "l", "o", "a", "d", "e", "d", "/", " ", "a", ".", "c", "s", "v">>

\* The token has the form "Basic <credentials>".
HasBasicForm(token) ==
  /\ ~Falsy(token)
  /\ Len(token.s) > 6
  /\ SubSeq(token.s, 1, 6) = <<"B", "a", "s", "i", "c", " ">>
\* The credentials a token of that form carries.
Credentials(token) == DecodeBase64(SubSeq(token.s, 7, Len(token.s)))
\* The credentials have nothing before their first colon.
LacksUsername(d) == d = <<>> \/ d[1] = ":"
\* The credentials have no colon, or nothing between their first colon and
\* their end or their next colon.
LacksPassword(d) ==
  \A i \in 1..Len(d) :
    (d[i] = ":" /\ \A j \in 1..(i - 1) : d[j] # ":") =>
      (i = Len(d) \/ d[i + 1] = ":")
Malformed(token) ==
  \/ ~HasBasicForm(token)
  \/ LacksUsername(Credentials(token))
  \/ LacksPassword(Credentials(token))

\* C15: for a token that carries a username and a password, the authorizer
\* returns a policy for the requested resource, and the policy says Allow
\* exactly when the stacks configure a secret for that username and the
\* password equals it; a wrong password and an unknown username get Deny.
C15_AllowExactlyConfigured ==
  (gw.pc # "idle" /\ ~Malformed(gw.token)) =>
    LET username == Username(Credentials(gw.token)).s
        password == Password(Credentials(gw.token)).s
    IN /\ gw.auth.kind = "policy"
       /\ gw.auth.resource = MethodArn
       /\ gw.auth.effect \in {"Allow", "Deny"}
       /\ gw.auth.effect = "Allow" <=>
            /\ username \in DOMAIN ConfiguredSecrets
            /\ ConfiguredSecrets[username] = password

\* C16: a missing token, a token not of the form "Basic <credentials>" and
\* credentials without a username or without a password raise the
\* Unauthorized error and get no policy; every other token gets a policy
\* (Allow or Deny) and never that error.
C16_MalformedRaisesError ==
  gw.pc # "idle" =>
    /\ Malformed(gw.token) => gw.auth = Unauthorized
    /\ ~Malformed(gw.token) =>
         (gw.auth.kind = "policy" /\ gw.auth.effect \in {"Allow", "Deny"})
    /\ gw.auth.kind = "policy" => gw.auth.resource = MethodArn

\* C16 witness: credentials without a password raised the error.
C16_Witness ==
  /\ gw.token = Str(NoPasswordToken)
  /\ gw.auth = Unauthorized
  /\ gw.response.statusCode = 401

\* C17: the token of the README, "Basic a2FzLXM6VEVTVF9QQVNTV09SRA==", is
\* answered with an Allow policy under the environment the stacks configure.
C17_DocumentedCredentialsAllowed ==
  (gw.pc # "idle" /\ gw.token = Str(DocumentedToken)) =>
    /\ gw.auth.kind = "policy"
    /\ gw.auth.effect = "Allow"

\* The rows of the file whose submission succeeded and that equal m.
SentCopies(m) ==
  Cardinality({k \in 1..Len(fp.sends) : fp.sends[k] = "sent" /\ fp.rows[k] = m})

\* C18: a failed queue submission of a row never fails the invocation of the
\* row extractor (it fails only when the object cannot be fetched or the
\* stream breaks); once the file was read to its end, a submission was made
\* for every row whatever became of the others, the invocation resolves when
\* all have settled, and the queue holds, beyond what it held before, exactly
\* the rows whose submission succeeded.
C18_SendFailureSkipped ==
  /\ fp.pc = "rejected" => fp.error \in {"get object", "stream"}
  /\ (fp.pc \in {"join", "resolved"} /\ fp.read > 0) =>
       Len(fp.sends) = Len(fp.rows)
  /\ fp.pc = "resolved" => \A k \in 1..Len(fp.sends) : fp.sends[k] # "pending"
  /\ \A m \in Rows :
       CopiesIn(m, queue) = CopiesIn(m, fp.before) + SentCopies(m)

\* C18 witness: the submission of the first row failed, the second row is in
\* the queue and the invocation resolved.
C18_Witness ==
  /\ fp.pc = "resolved"
  /\ fp.rows = <<CsvRow, CsvRowNoPrice>>
  /\ fp.sends = <<"failed", "sent">>
  /\ CopiesIn(CsvRowNoPrice, queue) >= 1

\* C19: no step of the creation paths or of the reads modifies or removes a Product or a
\* Stock row that is in the catalog, and every Product written is stored under
\* an identifier that no Product and no Stock row had before.
C19_NeverModified ==
  [][/\ \A id \in DOMAIN products :
          id \in DOMAIN products' /\ products'[id] = products[id]
     /\ \A id \in DOMAIN stock :
          id \in DOMAIN stock' /\ stock'[id] = stock[id]
     /\ \A id \in DOMAIN products' \ DOMAIN products : id \notin DOMAIN stock
     /\ \A id \in DOMAIN stock' \ DOMAIN stock :
          id \in DOMAIN products => id = dc.productId]_vars

\* C19 witness: direct create and the consumer have each committed a pair,
\* and the two pairs are in the catalog under different identifiers.
C19_Witness ==
  /\ Cardinality(DOMAIN products) = 2
  /\ DOMAIN stock = DOMAIN products
  /\ dc.productId \in DOMAIN stock
  /\ cb.createdProducts # <<>>
  /\ cb.createdProducts[1].id \in DOMAIN stock
  /\ cb.createdProducts[1].id # dc.productId

\* C20: when the batch of an invocation that failed at message k is delivered
\* again, it comes whole, and each message the earlier attempt had committed
\* is, once the new attempt has handled it, committed a second time under
\* another identifier, the earlier pair staying in the catalog: one message,
\* two Product+Stock pairs.
C20_RedeliveryDuplicates ==
  cb.earlier # <<>> =>
    LET attempt == cb.earlier[Len(cb.earlier)]
    IN /\ cb.records = attempt.records
       /\ Len(attempt.createdProducts) = attempt.failedAt - 1
       /\ \A j \in 1..Len(attempt.createdProducts) :
            /\ Committed(attempt.createdProducts[j], cb.records[j])
            /\ cb.i > j =>
                 /\ Len(cb.createdProducts) >= j
                 /\ Committed(cb.createdProducts[j], cb.records[j])
                 /\ cb.createdProducts[j].id # attempt.createdProducts[j].id

\* C20 witness: a batch of two failed at its second message and was delivered
\* again; its first message now has two pairs in the catalog.
C20_Witness ==
  /\ cb.earlier # <<>>
  /\ cb.earlier[1].failedAt = 2
  /\ Len(cb.createdProducts) >= 1
  /\ cb.createdProducts[1].id # cb.earlier[1].createdProducts[1].id
  /\ {cb.createdProducts[1].id, cb.earlier[1].createdProducts[1].id}
       \subseteq (DOMAIN products \cap DOMAIN stock)
  /\ products[cb.createdProducts[1].id].title
       = products[cb.earlier[1].createdProducts[1].id].title

\* The keys for which a GetObjectCommand was sent.
KeysRead == {fp.gets[k] : k \in 1..Len(fp.gets)}

\* A key the extractor is to work on: under the prefix and ending in ".csv".
ToExtract(key) == StartsWith(key, UploadedPrefix) /\ endsWith(key, CsvSuffix)

\* C21: the row extractor sends a GetObjectCommand only for the key of a
\* created object that lies under "uploaded/" and ends in ".csv", and starts
\* submissions only for rows of an object it has read; an object outside the
\* prefix or without the extension is never read.  A record that is passed
\* over moves the loop on by one record: when the handler returns, every
\* record of the event was handled, and passed over are exactly the records
\* whose key does not end in ".csv".
C21_SkippedNotRead ==
  /\ \A key \in KeysRead :
       ToExtract(key) /\ \E j \in 1..Len(fp.created) : fp.created[j].key = key
  /\ \A j \in 1..Len(fp.created) :
       ~ToExtract(fp.created[j].key) => fp.created[j].key \notin KeysRead
  /\ fp.sends # <<>> => fp.key \in KeysRead
  /\ fp.pc = "loop" => fp.r = Len(fp.handled) + 1
  /\ fp.pc = "resolved" =>
       /\ Len(fp.handled) = Len(fp.event)
       /\ \A j \in 1..Len(fp.event) :
            fp.handled[j] = "skipped" <=>
              ~endsWith(RecordKey(fp.event[j]).s, CsvSuffix)

\* C21 witness: the placeholder and an upload with a space and a plus sign in
\* its name came in one event; the first record was passed over, the second
\* was read and its row is in the queue.
C21_Witness ==
  /\ fp.pc = "resolved"
  /\ Len(fp.created) = 2
  /\ fp.created[1].key = ObjectKey(<<".", "k", "e", "e", "p">>)
  /\ fp.handled = <<"skipped", "resolved">>
  /\ fp.gets = <<ObjectKey(<<"a", " ", "+", ".", "c", "s", "v">>)>>
  /\ fp.sends = <<"sent">>
  /\ BagCardinality(queue) = 1

\* The submissions of the file at hand that have not settled.
InFlight == {k \in 1..Len(fp.sends) : fp.sends[k] = "pending"}

\* C22: the submissions of a file are in flight together and settle in any
\* order, and the extractor waits for all of them: it goes on to the next
\* record, and returns, only when no submission is in flight; when it has
\* read a file to its end and gone on, every row of the file has a submission
\* that settled, once.
C22_JoinedBeforeCompletion ==
  /\ fp.pc \in {"loop", "get", "resolved"} => InFlight = {}
  /\ (fp.pc \in {"loop", "resolved"} /\ fp.handled # <<>>
        /\ fp.handled[Len(fp.handled)] = "resolved") =>
       /\ Len(fp.sends) = Len(fp.rows)
       /\ Len(fp.settled) = Len(fp.rows)
       /\ {fp.settled[j] : j \in 1..Len(fp.settled)} = 1..Len(fp.rows)

\* C22 witness: two submissions were in flight together, the second settled
\* before the first, and the invocation returned after both.
C22_Witness ==
  /\ fp.pc = "resolved"
  /\ fp.settled = <<2, 1>>
  /\ fp.sends = <<"failed", "sent">>

\* C23: within one consumer invocation the writes are sent one after another
\* in delivery order: at most one write is in flight, it is the write for the
\* message the loop stands at, and every write for an earlier message of the
\* batch has completed before it was sent.
C23_OneWriteAtATime ==
  /\ cb.started - cb.writes \in {0, 1}
  /\ cb.started - cb.writes = 1 <=> cb.pc = "write"
  /\ cb.pc = "write" => cb.started = cb.i /\ Len(cb.createdProducts) = cb.i - 1
  /\ cb.pc = "loop" => cb.started = cb.i - 1
  /\ Len(cb.createdProducts) <= cb.writes

\* C23 witness: the write for the second message of a batch is in flight,
\* the write for the first has completed.
C23_Witness ==
  /\ cb.pc = "write"
  /\ cb.i = 2
  /\ cb.writes = 1
  /\ Len(cb.createdProducts) = 1

\* A row as the claim describes it: every member a string, a non-empty
\* title, a numeric price above zero and a count that is numeric or empty.
ImportableRow(m) ==
  /\ m.kind = "object"
  /\ typeof(m.title) = "string" /\ m.title.s # <<>>
  /\ typeof(m.description) = "string"
  /\ typeof(m.price) = "string"
  /\ ~isNaN(parseFloat(m.price.s)) /\ parseFloat(m.price.s).n > 0
  /\ typeof(m.count) = "string"
  /\ (m.count.s = <<>> \/ ~isNaN(parseFloat(m.count.s)))

\* The Product+Stock pairs in the catalog that carry the row's numeric price
\* and count (0 for an empty count).
PairsOf(m) ==
  {id \in DOMAIN products \cap DOMAIN stock :
     /\ products[id].title = trim(m.title.s)
     /\ products[id].price = parseFloat(m.price.s)
     /\ stock[id].count =
          IF m.count.s = <<>> THEN Num(0) ELSE parseFloat(m.count.s)}

\* The rows of the uploaded files of the event that equal m.
RECURSIVE EventCopies(_, _)
EventCopies(m, event) ==
  IF event = <<>> THEN 0
  ELSE Cardinality({k \in 1..Len(Head(event).rows) : Head(event).rows[k] = m})
         + EventCopies(m, Tail(event))

\* No submission and no write has failed.
NothingFailed ==
  /\ ~cb.writeFailed
  /\ fp.error = ""
  /\ \A k \in 1..Len(fp.sends) : fp.sends[k] # "failed"

\* The file was read to its end, every row is submitted, the queue is empty
\* and the consumer has returned from its last batch.
PipelineDrained ==
  /\ fp.pc = "resolved"
  /\ \A j \in 1..Len(fp.handled) : fp.handled[j] = "resolved"
  /\ queue = EmptyBag
  /\ cb.pc = "resolved"

\* C24: while no submission and no write has failed, a row of an uploaded
\* file that holds a non-empty title, a description, a numeric price above
\* zero and a numeric or empty count has at most as many Product+Stock pairs
\* with that price and count as the file has such rows, and exactly as many
\* once the file is read, the queue is empty and the consumer has returned.
C24_RowCommittedOnce ==
  NothingFailed =>
    \A m \in Rows :
      ImportableRow(m) =>
        /\ Cardinality(PairsOf(m)) <= EventCopies(m, fp.event)
        /\ PipelineDrained =>
             Cardinality(PairsOf(m)) = EventCopies(m, fp.event)

\* C25: every request to GET /import is put to the authorizer with its own
\* token, whatever the requests before it were answered; import-products-file
\* runs for a request only when the authorizer returned Allow for that token,
\* a Deny ends the request with 403 and the Unauthorized error with 401, the
\* handler not having run.
C25_HandlerOnlyAfterAllow ==
  /\ gw.authCalls = gw.requests
  /\ gw.pc # "idle" =>
       /\ gw.auth = basicAuthorizer(gw.token, MethodArn)
       /\ (gw.ran \/ gw.pc \in {"invoke", "sign"}) =>
            gw.auth.kind = "policy" /\ gw.auth.effect = "Allow"
       /\ gw.auth.kind = "error" =>
            gw.pc = "done" /\ ~gw.ran /\ gw.response.statusCode = 401
       /\ (gw.auth.kind = "policy" /\ gw.auth.effect # "Allow") =>
            gw.pc = "done" /\ ~gw.ran /\ gw.response.statusCode = 403
  /\ gw.pc = "idle" => ~gw.ran

\* C25 witness: a request was allowed and served; the next request, with the
\* wrong password, is denied without the handler running.
C25_Witness ==
  /\ gw.requests = 2
  /\ gw.last.token = Str(StackUserToken)
  /\ gw.last.auth.effect = "Allow"
  /\ gw.token = Str(WrongPasswordToken)
  /\ gw.auth.effect = "Deny"
  /\ gw.pc = "done"
  /\ ~gw.ran
  /\ gw.response.statusCode = 403

\* C26: an Allow policy is only ever returned for a username for which the
\* stacks configure a credential; the name and value of another entry of the
\* authorizer's environment do not authorize.
C26_OnlyCredentialsAuthorize ==
  (gw.pc # "idle" /\ gw.auth.kind = "policy" /\ gw.auth.effect = "Allow") =>
    gw.auth.principalId \in DOMAIN ConfiguredSecrets

\* The places of the colons in the credentials.
Colons(d) == {i \in 1..Len(d) : d[i] = ":"}
\* The n-th colon-separated segment of the credentials, for n up to the
\* number of segments.
Segment(d, n) ==
  LET ends == Colons(d) \cup {Len(d) + 1}
      Nth(k) == CHOOSE i \in ends : Cardinality({j \in ends : j < i}) = k - 1
      from == IF n = 1 THEN 1 ELSE Nth(n - 1) + 1
  IN SubSeq(d, from, Nth(n) - 1)
SegmentCount(d) == Cardinality(Colons(d)) + 1
\* The first two segments, or the only one.
FirstTwo(d) ==
  IF SegmentCount(d) = 1 THEN <<Segment(d, 1)>>
  ELSE <<Segment(d, 1), Segment(d, 2)>>

\* C27: two tokens of the form "Basic <credentials>" whose credentials agree
\* on their first two colon-separated segments get the same answer from the
\* authorizer; what follows a second colon plays no part, so an Allow means
\* that the second segment alone equals the stored secret, never the whole
\* text after the first colon when that text contains a colon.
C27_FirstTwoSegmentsDecide ==
  /\ (gw.pc # "idle" /\ gw.requests >= 2
        /\ HasBasicForm(gw.token) /\ HasBasicForm(gw.last.token)
        /\ FirstTwo(Credentials(gw.token)) = FirstTwo(Credentials(gw.last.token)))
       => gw.auth = gw.last.auth
  /\ (gw.pc # "idle" /\ HasBasicForm(gw.token) /\ gw.auth.kind = "policy"
        /\ gw.auth.effect = "Allow") =>
       LET d == Credentials(gw.token)
       IN /\ SegmentCount(d) >= 2
          /\ StoredPassword(Segment(d, 1)) = Str(Segment(d, 2))
          /\ SegmentCount(d) > 2 =>
               StoredPassword(Segment(d, 1))
                 # Str(SubSeq(d, Len(Segment(d, 1)) + 2, Len(d)))

\* C27 witness: kas_s:TEST_PASSWORD was allowed, and kas_s:TEST_PASSWORD:x,
\* which differs only after the second colon, is allowed as well.
C27_Witness ==
  /\ gw.requests = 2
  /\ gw.last.token = Str(StackUserToken)
  /\ gw.token = Str(LongerPasswordToken)
  /\ gw.auth.kind = "policy"
  /\ gw.auth.effect = "Allow"
  /\ gw.auth = gw.last.auth

\* C28: every notification published by a consumer invocation lists the
\* products that this invocation committed, one for each message of its
\* batch in the order of handling (identifiers are handed out in that order),
\* each with the identifier, title and price of its Product record and the
\* count of its Stock row; it is published only when every write of the
\* invocation was attempted and succeeded.
C28_NotifiedAsCommitted ==
  \A n \in 1..Len(cb.published) :
    LET listed == cb.published[n].products
    IN /\ cb.error = ""
       /\ cb.writes = Len(cb.records)
       /\ Len(listed) = Len(cb.records)
       /\ listed = cb.createdProducts
       /\ \A j \in 1..Len(listed) :
            /\ listed[j].id \in DOMAIN products \cap DOMAIN stock
            /\ products[listed[j].id].id = listed[j].id
            /\ products[listed[j].id].title = listed[j].title
            /\ products[listed[j].id].price = listed[j].price
            /\ stock[listed[j].id].count = listed[j].count
            /\ products[listed[j].id].title = ParseRecord(cb.records[j]).title
            /\ j > 1 => listed[j - 1].id < listed[j].id

\* C28 witness: a notification naming two products was published; the
\* message gave no count, and the notification carries the count written, 0.
C28_Witness ==
  /\ Len(cb.published) = 1
  /\ Len(cb.published[1].products) = 2
  /\ cb.records[1].count = Undefined
  /\ cb.published[1].products[2].count = Num(0)
  /\ stock[cb.published[1].products[2].id].count = Num(0)

\* C29: direct create answers a body that is not JSON with status 500 and a
\* request without a body with status 400, in both cases without drawing an
\* identifier or writing anything; the handler always ends with a response.
C29_UnparseableBody ==
  /\ dc.pc \in {"idle", "putProduct", "putStock", "done"}
  /\ dc.pc = "done" => dc.response.statusCode \in {201, 400, 500}
  /\ (dc.pc = "done" /\ dc.data = InvalidJson) =>
       dc.response = ErrorResponse(500) /\ dc.productId = 0
  /\ (dc.pc = "done" /\ dc.data = AbsentBody) =>
       dc.response = ErrorResponse(400) /\ dc.productId = 0
  /\ bodies \in {{InvalidJson}, {AbsentBody}} =>
       products = NoTable /\ stock = NoTable /\ nextId = 1

\* C29 witness: a request whose body is not JSON was answered with 500 and
\* nothing was written.
C29_Witness ==
  /\ dc.pc = "done"
  /\ dc.data = InvalidJson
  /\ dc.response.statusCode = 500
  /\ products = NoTable

\* C30: when the GetObjectCommand of a record fails or its stream breaks, the
\* invocation of the row extractor fails at that record: the records before
\* it were handled, no later record is taken up or read, and the queue keeps
\* what the earlier records put into it and gains what the submissions of the
\* failing file deliver.
C30_ReadFailureFailsInvocation ==
  /\ fp.error # "" => fp.pc = "rejected"
  /\ fp.pc = "rejected" =>
       /\ fp.error \in {"get object", "stream"}
       /\ fp.r \in 1..Len(fp.event)
       /\ Len(fp.handled) = fp.r - 1
       /\ Len(fp.gets) <= fp.r
       /\ fp.gets[Len(fp.gets)] = RecordKey(fp.event[fp.r]).s
       /\ fp.before \sqsubseteq queue
       /\ \A m \in Rows :
            CopiesIn(m, queue) = CopiesIn(m, fp.before) + SentCopies(m)

\* C30 witness: the first file of an event was extracted and its row is in
\* the queue; the stream of the second file broke after a row of it was
\* submitted; the invocation failed and both messages are in the queue.
C30_Witness ==
  /\ fp.pc = "rejected"
  /\ fp.error = "stream"
  /\ Len(fp.event) = 2
  /\ fp.r = 2
  /\ fp.handled = <<"resolved">>
  /\ BagCardinality(fp.before) = 1
  /\ fp.sends = <<"sent">>
  /\ BagCardinality(queue) = 2

====
